---- MODULE Spec2Model ----
(***************************************************************************)
(* Model of the MoC-scraper fetch / pair / write pipeline.                 *)
(*                                                                         *)
(*   Spec        src/main.py: main() gathers two scrape_multiple_urls      *)
(*               passes (language cookie "1" = English, "3" = Khmer) on    *)
(*               one asyncio event loop, then save_combined_to_csv.        *)
(*   FairSpec    the same, with the progress the event loop guarantees.    *)
(*   SyncSpec    src/MoFA/MoFA.py: the synchronous single-pass scraper.    *)
(*   CelerySpec  src/Celery/tasks.py: scrape_and_save_paired_content.      *)
(*   CrawlSpec   src/WebCrawling.py: crawl_website / handle_url.           *)
(*   ConfigSpec  crawl_website called with any concurrency.                *)
(*   FetchSpec   a run of main() or a run of crawl_website.                *)
(*   AlignSpec   src/KhmerEnglishAligner.py: align.                        *)
(*   TextSpec    calls of the text functions (join_khmer_sentences in its  *)
(*               three variants, detect_language, the element filter of    *)
(*               extract_content) on strings given by their characters.    *)
(*                                                                         *)
(* In the pipeline a text fragment is the tuple <<url id, language,        *)
(* position>>; the empty string "" is the empty tuple.                     *)
(***************************************************************************)
EXTENDS Integers, Sequences, FiniteSets, TLC

\* ------------------------------------------------------------------ bounds
MaxUrls == 2
MaxTexts == 2
MaxPages == 3
MaxLinks == 2
MaxDepth == 2
MaxConcurrency == 2
MaxKhmer == 2
MaxEnglish == 3
MaxFrags == 3
MaxChars == 10
MaxRun == 10
MaxElements == 2

\* src/main.py:185  len(cleaned_text) >= 3
MinTextLen == 3
\* src/main.py:658  the {3,} of the symbol patterns
MinSymbolRun == 3
\* src/main.py:685  len(no_space_text) < 10
ShortSymbolLen == 10

\* src/main.py:412  aiohttp.TCPConnector(limit=10)
ConnectorLimit == 10

\* ------------------------------------------------------------------ helpers
Max(a, b) == IF a >= b THEN a ELSE b

Empty == <<>>

Range(seq) == {seq[j] : j \in 1..Len(seq)}

None == [none |-> TRUE]

Text(i, lang, j) == <<i, lang, j>>

Texts(i, lang, n) == [j \in 1..n |-> Text(i, lang, j)]

\* language cookies of the two scrapers built by main()
Passes == {"1", "3"}

\* numbers of fragments a fetched page yields: none, one, many
PageSizes == {0, 1, MaxTexts}

\* a URL as urlparse() sees it: scheme and network location
Urls == [scheme : {"", "https"}, netloc : {"", "www.mfaic.gov.kh"}]

VARIABLES
    urls,       \* the input URL list
    pc,         \* per pass: position in scrape_multiple_urls
    tasks,      \* per pass: the (i, url, task) list, as the URL ids i
    cur,        \* per pass: index in tasks of the task being awaited
    state,      \* per pass, per URL id: position of its scrape_url coroutine
    results,    \* per pass: the results list
    attempts,   \* per pass, per URL id: number of session.get calls issued
    outcome,    \* per pass, per URL id: how scrape_url ended
    mainpc,     \* position of main() / of the synchronous drivers
    rows,       \* the rows written to the CSV file
    idx,        \* loop index of the synchronous drivers
    paired_results,  \* Celery task: rows collected before writing
    queue,        \* crawler: deque of (url, depth)
    visited_urls, \* crawler: set of URLs handed to handle_url
    all_links,    \* crawler: set of links found
    handlers,     \* crawler: the handle_url coroutines of the current batch
    semaphore,    \* crawler: value of asyncio.Semaphore(concurrency)
    concurrency,  \* crawler: parameter of crawl_website
    max_depth,    \* crawler: parameter of crawl_website
    crawlpc,      \* crawler: position of crawl_website
    arg,          \* text functions: the argument of the call
    ret,          \* text functions: what the call returned
    english_sentences,       \* aligner: data["english"]
    khmer_sentences,         \* aligner: data["khmer"]
    similarities,            \* aligner: best English match of every Khmer sentence
    merge_scores,            \* aligner: similarity of Khmer k and "text_k e"
    pairs,                   \* aligner: the (en_idx, km_idx, score) tuples
    merged_english_texts,    \* aligner: the English text of every pair
    unused_english_indices,  \* aligner: English sentences no pair uses
    pair_idx,                \* aligner: loop index of _merge_unused_sentences
    encoded,                 \* aligner: number of texts given to the model
    aligned,                 \* aligner: the dictionary align returns
    alignpc                  \* aligner: position of align

vars == <<urls, pc, tasks, cur, state, results, attempts, outcome, mainpc,
          rows, idx, paired_results,
          queue, visited_urls, all_links, handlers, semaphore, concurrency,
          max_depth, crawlpc,
          arg, ret,
          english_sentences, khmer_sentences, similarities, merge_scores,
          pairs, merged_english_texts, unused_english_indices, pair_idx,
          encoded, aligned, alignpc>>

scrapeVars == <<urls, pc, tasks, cur, state, results, attempts, outcome,
                mainpc, rows>>

syncVars == <<idx, paired_results>>

crawlVars == <<queue, visited_urls, all_links, handlers, semaphore,
               concurrency, max_depth, crawlpc>>

textVars == <<arg, ret>>

alignVars == <<english_sentences, khmer_sentences, similarities, merge_scores,
               pairs, merged_english_texts, unused_english_indices, pair_idx,
               encoded, aligned, alignpc>>

libVars == <<textVars, alignVars>>

\* ------------------------------------------------------------ validate_url
validate_url(url) ==
    IF url.scheme = "" \/ url.netloc = "" THEN FALSE ELSE TRUE

\* -------------------------------------------------------- result records
Placeholder(i) == [id |-> i, english_texts |-> <<>>, khmer_texts |-> <<>>]

\* extract_content of a scraper with language cookie p on a page with n
\* fragments: all of them go to the stream of the pass language
extract_content(p, i, n) ==
    IF p = "1"
    THEN [english |-> Texts(i, "en", n), khmer |-> <<>>]
    ELSE [english |-> <<>>, khmer |-> Texts(i, "kh", n)]

\* the dict appended for task i once `await task` has returned content
ResultOf(i, content) ==
    IF content = None
    THEN Placeholder(i)
    ELSE [id |-> i, english_texts |-> content.english,
          khmer_texts |-> content.khmer]

\* the ways a fetch ends without content
Failed == {"transient", "permanent", "timeout"}

\* ------------------------------------------------------ idle values
NoCrawl ==
    /\ queue = <<>>
    /\ visited_urls = {}
    /\ all_links = {}
    /\ handlers = <<>>
    /\ semaphore = 0
    /\ concurrency = 0
    /\ max_depth = 0
    /\ crawlpc = "off"

NoScrape ==
    /\ urls = <<>>
    /\ pc = [p \in Passes |-> "off"]
    /\ tasks = [p \in Passes |-> <<>>]
    /\ cur = [p \in Passes |-> 1]
    /\ state = [p \in Passes |-> <<>>]
    /\ results = [p \in Passes |-> <<>>]
    /\ attempts = [p \in Passes |-> <<>>]
    /\ outcome = [p \in Passes |-> <<>>]
    /\ mainpc = "off"
    /\ rows = <<>>

NoSync ==
    /\ idx = 0
    /\ paired_results = <<>>

NoText ==
    /\ arg = None
    /\ ret = None

NoAlign ==
    /\ english_sentences = <<>>
    /\ khmer_sentences = <<>>
    /\ similarities = <<>>
    /\ merge_scores = <<>>
    /\ pairs = <<>>
    /\ merged_english_texts = <<>>
    /\ unused_english_indices = <<>>
    /\ pair_idx = 0
    /\ encoded = 0
    /\ aligned = None
    /\ alignpc = "off"

\* ------------------------------------------------------------------- Init
InputLists == UNION {[1..n -> Urls] : n \in 1..MaxUrls}

Init ==
    /\ urls \in InputLists
    /\ pc = [p \in Passes |-> "start"]
    /\ tasks = [p \in Passes |-> <<>>]
    /\ cur = [p \in Passes |-> 1]
    /\ state = [p \in Passes |-> [i \in 1..Len(urls) |-> "none"]]
    /\ results = [p \in Passes |-> <<>>]
    /\ attempts = [p \in Passes |-> [i \in 1..Len(urls) |-> 0]]
    /\ outcome = [p \in Passes |-> [i \in 1..Len(urls) |-> "none"]]
    /\ mainpc = "gather"
    /\ rows = <<>>
    /\ NoSync
    /\ NoCrawl
    /\ NoText
    /\ NoAlign

\* ------------------------------------------- scrape_multiple_urls: prepare
\* lines 421-437: the validation loop
RECURSIVE PrepareFrom(_, _, _, _)
PrepareFrom(us, i, res, tsk) ==
    IF i > Len(us) THEN [results |-> res, tasks |-> tsk]
    ELSE IF ~validate_url(us[i])
         THEN PrepareFrom(us, i + 1, Append(res, Placeholder(i)), tsk)
         ELSE PrepareFrom(us, i + 1, res, Append(tsk, i))

\* mutant: every prepared coroutine is scheduled at once (create_task)
AwaitNext_Scheduled(st, tsk, k) ==
    [i \in DOMAIN st |-> IF st[i] = "created" THEN "sleep" ELSE st[i]]

\* lines 440-442, `for i, url, task in tasks: content = await task`: the
\* loop reaches the k-th task and starts its coroutine, and only that one,
\* which runs up to `await asyncio.sleep(self.delay)`
AwaitNext(st, tsk, k) ==
    IF k <= Len(tsk) THEN [st EXCEPT ![tsk[k]] = "sleep"] ELSE st

\* scrape_multiple_urls from its call to its first suspension: nothing in
\* lines 409-442 waits before the first coroutine sleeps
Prepare(p) ==
    /\ mainpc = "gather"
    /\ pc[p] = "start"
    /\ LET r == PrepareFrom(urls, 1, <<>>, <<>>)
           created == [i \in 1..Len(urls) |->
                         IF validate_url(urls[i]) THEN "created" ELSE "none"]
       IN
        /\ results' = [results EXCEPT ![p] = r.results]
        /\ tasks' = [tasks EXCEPT ![p] = r.tasks]
        /\ state' = [state EXCEPT ![p] = AwaitNext(created, r.tasks, 1)]
        /\ pc' = [pc EXCEPT ![p] = IF r.tasks = <<>> THEN "done" ELSE "loop"]
    /\ UNCHANGED <<urls, cur, attempts, outcome, mainpc, rows>>
    /\ UNCHANGED syncVars
    /\ UNCHANGED crawlVars
    /\ UNCHANGED libVars

\* ------------------------------------------------------------- scrape_url
\* a coroutine that is mid-request: its connection is in use ("hung": the
\* server will never send what the coroutine waits for)
Busy == {"inflight", "hung", "reading"}

InFlight(p) == Cardinality({i \in 1..Len(urls) : state[p][i] \in Busy})

\* the sleep is over and session.get issues the request; the connector of
\* the pass's session admits at most ConnectorLimit connections.  The
\* server may answer or never answer.
SendRequest(p, i) ==
    /\ state[p][i] = "sleep"
    /\ InFlight(p) < ConnectorLimit
    /\ attempts' = [attempts EXCEPT ![p][i] = @ + 1]
    /\ \E s \in {"inflight", "hung"} : state' = [state EXCEPT ![p][i] = s]
    /\ UNCHANGED <<urls, pc, tasks, cur, results, outcome, mainpc, rows>>
    /\ UNCHANGED syncVars
    /\ UNCHANGED crawlVars
    /\ UNCHANGED libVars

\* mutant: a failed fetch is put back to sleep and requested again
FinishTask_Retry(p, i, content, how) ==
    IF content = None /\ attempts[p][i] < 2
    THEN /\ state' = [state EXCEPT ![p][i] = "sleep"]
         /\ UNCHANGED <<urls, pc, tasks, cur, results, attempts, outcome,
                        mainpc, rows>>
         /\ UNCHANGED syncVars
         /\ UNCHANGED crawlVars
         /\ UNCHANGED libVars
    ELSE /\ results' = [results EXCEPT ![p] = Append(@, ResultOf(i, content))]
         /\ outcome' = [outcome EXCEPT ![p][i] = how]
         /\ state' = [state EXCEPT ![p] =
               AwaitNext([@ EXCEPT ![i] = "done"], tasks[p], cur[p] + 1)]
         /\ cur' = [cur EXCEPT ![p] = @ + 1]
         /\ pc' = [pc EXCEPT ![p] =
               IF cur[p] = Len(tasks[p]) THEN "done" ELSE "loop"]
         /\ UNCHANGED <<urls, tasks, attempts, mainpc, rows>>
         /\ UNCHANGED syncVars
         /\ UNCHANGED crawlVars
         /\ UNCHANGED libVars

\* mutant: a failed task ends the loop over tasks with the error
FinishTask_Raise(p, i, content, how) ==
    /\ outcome' = [outcome EXCEPT ![p][i] = how]
    /\ IF content = None
       THEN /\ pc' = [pc EXCEPT ![p] = "raised"]
            /\ state' = [state EXCEPT ![p][i] = "done"]
            /\ UNCHANGED <<results, cur>>
       ELSE /\ results' = [results EXCEPT ![p] =
                  Append(@, ResultOf(i, content))]
            /\ state' = [state EXCEPT ![p] =
                  AwaitNext([@ EXCEPT ![i] = "done"], tasks[p], cur[p] + 1)]
            /\ cur' = [cur EXCEPT ![p] = @ + 1]
            /\ pc' = [pc EXCEPT ![p] =
                  IF cur[p] = Len(tasks[p]) THEN "done" ELSE "loop"]
    /\ UNCHANGED <<urls, tasks, attempts, mainpc, rows>>
    /\ UNCHANGED syncVars
    /\ UNCHANGED crawlVars
    /\ UNCHANGED libVars

\* mutant: a failed task leaves no result
FinishTask_DropsFailed(p, i, content, how) ==
    /\ results' = [results EXCEPT ![p] =
          IF content = None THEN @ ELSE Append(@, ResultOf(i, content))]
    /\ outcome' = [outcome EXCEPT ![p][i] = how]
    /\ state' = [state EXCEPT ![p] =
          AwaitNext([@ EXCEPT ![i] = "done"], tasks[p], cur[p] + 1)]
    /\ cur' = [cur EXCEPT ![p] = @ + 1]
    /\ pc' = [pc EXCEPT ![p] = IF cur[p] = Len(tasks[p]) THEN "done" ELSE "loop"]
    /\ UNCHANGED <<urls, tasks, attempts, mainpc, rows>>
    /\ UNCHANGED syncVars
    /\ UNCHANGED crawlVars
    /\ UNCHANGED libVars

\* scrape_url returns (content, or None from each of its except clauses and
\* from the content-type check), lines 442-463 append the result of the
\* task and the loop awaits the next task: no suspension lies between the
\* return, the append and the next coroutine's sleep
FinishTask(p, i, content, how) ==
    /\ results' = [results EXCEPT ![p] = Append(@, ResultOf(i, content))]
    /\ outcome' = [outcome EXCEPT ![p][i] = how]
    /\ state' = [state EXCEPT ![p] =
          AwaitNext([@ EXCEPT ![i] = "done"], tasks[p], cur[p] + 1)]
    /\ cur' = [cur EXCEPT ![p] = @ + 1]
    /\ pc' = [pc EXCEPT ![p] = IF cur[p] = Len(tasks[p]) THEN "done" ELSE "loop"]
    /\ UNCHANGED <<urls, tasks, attempts, mainpc, rows>>
    /\ UNCHANGED syncVars
    /\ UNCHANGED crawlVars
    /\ UNCHANGED libVars

\* status lines the server answers with
Statuses == {200, 404, 503}

\* session.get raises aiohttp.ClientError: the connection failed
RequestFails(p, i) ==
    /\ state[p][i] = "inflight"
    /\ FinishTask(p, i, None, "transient")

\* mutant: no total timeout is in force (ClientTimeout(total=None))
TimeoutFires_Disabled(p, i) ==
    /\ state[p][i] \in {}
    /\ FinishTask(p, i, None, "timeout")

\* ClientTimeout(total=self.timeout) expires while the request or the read
\* of the body is pending: asyncio.TimeoutError, caught at line 365
TimeoutFires(p, i) ==
    /\ state[p][i] \in Busy
    /\ FinishTask(p, i, None, "timeout")

\* mutant: an HTTP error status or a wrong content type is requested again
ReceiveResponse_RetryStatus(p, i) ==
    /\ state[p][i] = "inflight"
    /\ \E status \in Statuses, html \in BOOLEAN :
        IF (status >= 400 \/ ~html) /\ attempts[p][i] < 2
        THEN /\ state' = [state EXCEPT ![p][i] = "sleep"]
             /\ UNCHANGED <<urls, pc, tasks, cur, results, attempts, outcome,
                            mainpc, rows>>
             /\ UNCHANGED syncVars
             /\ UNCHANGED crawlVars
             /\ UNCHANGED libVars
        ELSE IF status >= 500 THEN FinishTask(p, i, None, "transient")
        ELSE IF status >= 400 \/ ~html THEN FinishTask(p, i, None, "permanent")
        ELSE /\ \E s \in {"reading", "hung"} :
                    state' = [state EXCEPT ![p][i] = s]
             /\ UNCHANGED <<urls, pc, tasks, cur, results, attempts, outcome,
                            mainpc, rows>>
             /\ UNCHANGED syncVars
             /\ UNCHANGED crawlVars
             /\ UNCHANGED libVars

\* the response head arrives: raise_for_status, then the content-type
\* check; the body may then arrive or never arrive
ReceiveResponse(p, i) ==
    /\ state[p][i] = "inflight"
    /\ \E status \in Statuses, html \in BOOLEAN :
        IF status >= 500 THEN FinishTask(p, i, None, "transient")
        ELSE IF status >= 400 THEN FinishTask(p, i, None, "permanent")
        ELSE IF ~html THEN FinishTask(p, i, None, "permanent")
        ELSE /\ \E s \in {"reading", "hung"} :
                    state' = [state EXCEPT ![p][i] = s]
             /\ UNCHANGED <<urls, pc, tasks, cur, results, attempts, outcome,
                            mainpc, rows>>
             /\ UNCHANGED syncVars
             /\ UNCHANGED crawlVars
             /\ UNCHANGED libVars

\* `await response.read()` returns, the page is parsed and extracted
ReadBody(p, i) ==
    /\ state[p][i] = "reading"
    /\ \E n \in PageSizes : FinishTask(p, i, extract_content(p, i, n), "ok")

\* reading the body fails (aiohttp.ClientError) or parsing raises
\* (Exception): scrape_url returns None
ReadFails(p, i) ==
    /\ state[p][i] = "reading"
    /\ \E how \in {"transient", "permanent"} : FinishTask(p, i, None, how)

\* --------------------------------------------------- save_combined_to_csv
PadAt(texts, j) == IF j <= Len(texts) THEN texts[j] ELSE Empty

\* mutant: the two streams are zipped, the longer one is cut
RowsOfUrl_Truncated(english_texts, khmer_texts, row_id) ==
    LET min_texts == IF Len(english_texts) <= Len(khmer_texts)
                     THEN Len(english_texts) ELSE Len(khmer_texts) IN
    IF min_texts = 0
    THEN << [ID |-> row_id, English_Text |-> Empty, Khmer_Text |-> Empty] >>
    ELSE [j \in 1..min_texts |->
            [ID |-> row_id + (j - 1),
             English_Text |-> PadAt(english_texts, j),
             Khmer_Text |-> PadAt(khmer_texts, j)]]

\* mutant: streams of unequal length, both non-empty, are aligned: one row
\* per Khmer text, the English texts left over merged into the last row
RowsOfUrl_Aligned(english_texts, khmer_texts, row_id) ==
    LET max_texts == Max(Len(english_texts), Len(khmer_texts))
        aligning == /\ english_texts # <<>>
                    /\ khmer_texts # <<>>
                    /\ Len(english_texts) # Len(khmer_texts)
        n == IF aligning THEN Len(khmer_texts) ELSE max_texts
    IN
    IF max_texts = 0
    THEN << [ID |-> row_id, English_Text |-> Empty, Khmer_Text |-> Empty] >>
    ELSE [j \in 1..n |->
            [ID |-> row_id + (j - 1),
             English_Text |->
                IF aligning /\ j = n /\ Len(english_texts) > n
                THEN english_texts[n] \o english_texts[Len(english_texts)]
                ELSE PadAt(english_texts, j),
             Khmer_Text |-> PadAt(khmer_texts, j)]]

\* lines 499-521: the rows of one URL, numbered from row_id
RowsOfUrl(english_texts, khmer_texts, row_id) ==
    LET max_texts == Max(Len(english_texts), Len(khmer_texts)) IN
    IF max_texts = 0
    THEN << [ID |-> row_id, English_Text |-> Empty, Khmer_Text |-> Empty] >>
    ELSE [j \in 1..max_texts |->
            [ID |-> row_id + (j - 1),
             English_Text |-> PadAt(english_texts, j),
             Khmer_Text |-> PadAt(khmer_texts, j)]]

RECURSIVE WriteFrom(_, _, _, _)
WriteFrom(english_results, khmer_results, i, row_id) ==
    IF i > Max(Len(english_results), Len(khmer_results)) THEN <<>>
    ELSE LET english_texts == IF i <= Len(english_results)
                              THEN english_results[i].english_texts ELSE <<>>
             khmer_texts == IF i <= Len(khmer_results)
                            THEN khmer_results[i].khmer_texts ELSE <<>>
             written == RowsOfUrl(english_texts, khmer_texts, row_id)
         IN written \o WriteFrom(english_results, khmer_results, i + 1,
                                 row_id + Len(written))

save_combined_to_csv(english_results, khmer_results) ==
    WriteFrom(english_results, khmer_results, 1, 1)

\* main(): asyncio.gather has both result lists, the CSV is written
Save ==
    /\ mainpc = "gather"
    /\ \A p \in Passes : pc[p] = "done"
    /\ rows' = save_combined_to_csv(results["1"], results["3"])
    /\ mainpc' = "saved"
    /\ UNCHANGED <<urls, pc, tasks, cur, state, results, attempts, outcome>>
    /\ UNCHANGED syncVars
    /\ UNCHANGED crawlVars
    /\ UNCHANGED libVars

Next ==
    \/ \E p \in Passes : Prepare(p)
    \/ \E p \in Passes, i \in 1..Len(urls) : SendRequest(p, i)
    \/ \E p \in Passes, i \in 1..Len(urls) : RequestFails(p, i)
    \/ \E p \in Passes, i \in 1..Len(urls) : TimeoutFires(p, i)
    \/ \E p \in Passes, i \in 1..Len(urls) : ReceiveResponse(p, i)
    \/ \E p \in Passes, i \in 1..Len(urls) : ReadBody(p, i)
    \/ \E p \in Passes, i \in 1..Len(urls) : ReadFails(p, i)
    \/ Save

Spec == Init /\ [][Next]_vars

\* ======================================================= src/MoFA/MoFA.py
\* The synchronous scraper: one MoFAWebScraper, one pass ("sync") that
\* extracts both languages from every page.
SyncPass == "sync"

SyncInit ==
    /\ urls \in InputLists
    /\ pc = [p \in {SyncPass} |-> "loop"]
    /\ tasks = [p \in {SyncPass} |-> <<>>]
    /\ cur = [p \in {SyncPass} |-> 1]
    /\ state = [p \in {SyncPass} |-> [i \in 1..Len(urls) |-> "none"]]
    /\ results = [p \in {SyncPass} |-> <<>>]
    /\ attempts = [p \in {SyncPass} |-> [i \in 1..Len(urls) |-> 0]]
    /\ outcome = [p \in {SyncPass} |-> [i \in 1..Len(urls) |-> "none"]]
    /\ mainpc = "scrape"
    /\ rows = <<>>
    /\ idx = 1
    /\ paired_results = <<>>
    /\ NoCrawl
    /\ NoText
    /\ NoAlign

\* the loop index moves on; after the last URL scrape_multiple_urls returns
SyncAdvance(p) ==
    /\ idx' = idx + 1
    /\ pc' = [pc EXCEPT ![p] = IF idx = Len(urls) THEN "done" ELSE "loop"]

\* lines 289-291: an invalid URL is logged and skipped
SyncSkipInvalid ==
    /\ mainpc = "scrape"
    /\ idx <= Len(urls)
    /\ ~validate_url(urls[idx])
    /\ SyncAdvance(SyncPass)
    /\ UNCHANGED <<urls, tasks, cur, state, results, attempts, outcome,
                   mainpc, rows, paired_results>>
    /\ UNCHANGED crawlVars
    /\ UNCHANGED libVars

\* lines 293-311: scrape_url (one session.get; None on every failure) and
\* the append of its result
SyncScrapeUrl ==
    /\ mainpc = "scrape"
    /\ idx <= Len(urls)
    /\ validate_url(urls[idx])
    /\ attempts' = [attempts EXCEPT ![SyncPass][idx] = @ + 1]
    /\ \/ \E how \in Failed :
            /\ outcome' = [outcome EXCEPT ![SyncPass][idx] = how]
            /\ results' = [results EXCEPT ![SyncPass] =
                  Append(@, ResultOf(idx, None))]
       \/ \E ne \in 0..MaxTexts, nk \in 0..MaxTexts :
            /\ outcome' = [outcome EXCEPT ![SyncPass][idx] = "ok"]
            /\ results' = [results EXCEPT ![SyncPass] =
                  Append(@, ResultOf(idx, [english |-> Texts(idx, "en", ne),
                                           khmer |-> Texts(idx, "kh", nk)]))]
    /\ SyncAdvance(SyncPass)
    /\ UNCHANGED <<urls, tasks, cur, state, mainpc, rows, paired_results>>
    /\ UNCHANGED crawlVars
    /\ UNCHANGED libVars

RECURSIVE SaveFrom(_, _, _)
SaveFrom(res, i, row_id) ==
    IF i > Len(res) THEN <<>>
    ELSE LET written == RowsOfUrl(res[i].english_texts, res[i].khmer_texts,
                                  row_id)
         IN written \o SaveFrom(res, i + 1, row_id + Len(written))

save_to_csv(res) == SaveFrom(res, 1, 1)

\* main(): scraper.save_to_csv(results, filename)
SyncSave ==
    /\ mainpc = "scrape"
    /\ idx > Len(urls)
    /\ rows' = save_to_csv(results[SyncPass])
    /\ mainpc' = "saved"
    /\ UNCHANGED <<urls, pc, tasks, cur, state, results, attempts, outcome,
                   idx, paired_results>>
    /\ UNCHANGED crawlVars
    /\ UNCHANGED libVars

SyncNext ==
    \/ SyncSkipInvalid
    \/ SyncScrapeUrl
    \/ SyncSave

SyncSpec == SyncInit /\ [][SyncNext]_vars

\* ===================================================== src/Celery/tasks.py
\* scrape_and_save_paired_content: a synchronous loop that scrapes every
\* URL with the English and with the Khmer scraper (scrape_url_sync).
CeleryInit ==
    /\ urls \in InputLists
    /\ pc = [p \in Passes |-> "loop"]
    /\ tasks = [p \in Passes |-> <<>>]
    /\ cur = [p \in Passes |-> 1]
    /\ state = [p \in Passes |-> [i \in 1..Len(urls) |-> "none"]]
    /\ results = [p \in Passes |-> <<>>]
    /\ attempts = [p \in Passes |-> [i \in 1..Len(urls) |-> 0]]
    /\ outcome = [p \in Passes |-> [i \in 1..Len(urls) |-> "none"]]
    /\ mainpc = "scrape"
    /\ rows = <<>>
    /\ idx = 1
    /\ paired_results = <<>>
    /\ NoCrawl
    /\ NoText
    /\ NoAlign

\* lines 46-48: an invalid URL is skipped
CelerySkipInvalid ==
    /\ mainpc = "scrape"
    /\ idx <= Len(urls)
    /\ ~validate_url(urls[idx])
    /\ idx' = idx + 1
    /\ UNCHANGED <<urls, pc, tasks, cur, state, results, attempts, outcome,
                   mainpc, rows, paired_results>>
    /\ UNCHANGED crawlVars
    /\ UNCHANGED libVars

\* lines 68-77: the rows of one URL, all with the URL's index as ID
PairedRows(en_texts, kh_texts, i) ==
    [j \in 1..Max(Len(en_texts), Len(kh_texts)) |->
        [ID |-> i,
         English_Text |-> PadAt(en_texts, j),
         Khmer_Text |-> PadAt(kh_texts, j)]]

\* the content scrape_url_sync returns: None on every failure
SyncContent(how, i, ne, nk) ==
    IF how = "ok"
    THEN [english |-> Texts(i, "en", ne), khmer |-> Texts(i, "kh", nk)]
    ELSE None

\* lines 50-77: both scrapes of one valid URL and the pairing of the texts
CeleryScrapeUrl ==
    /\ mainpc = "scrape"
    /\ idx <= Len(urls)
    /\ validate_url(urls[idx])
    /\ \E en_how \in Failed \cup {"ok"}, kh_how \in Failed \cup {"ok"} :
       \E ne \in 0..MaxTexts, nk \in 0..MaxTexts :
        LET en_content == SyncContent(en_how, idx, ne, 0)
            kh_content == SyncContent(kh_how, idx, 0, nk)
            en_texts == IF en_content # None THEN en_content.english ELSE <<>>
            kh_texts == IF kh_content # None THEN kh_content.khmer ELSE <<>>
        IN
        /\ (en_how # "ok" => ne = 0) /\ (kh_how # "ok" => nk = 0)
        /\ attempts' = [attempts EXCEPT !["1"][idx] = @ + 1,
                                        !["3"][idx] = @ + 1]
        /\ outcome' = [outcome EXCEPT !["1"][idx] = en_how,
                                      !["3"][idx] = kh_how]
        /\ results' = [results EXCEPT
              !["1"] = Append(@, ResultOf(idx, en_content)),
              !["3"] = Append(@, ResultOf(idx, kh_content))]
        /\ paired_results' = paired_results \o PairedRows(en_texts, kh_texts, idx)
    /\ idx' = idx + 1
    /\ UNCHANGED <<urls, pc, tasks, cur, state, mainpc, rows>>
    /\ UNCHANGED crawlVars
    /\ UNCHANGED libVars

\* lines 88-100: writer.writerows(paired_results)
CeleryWriteCsv ==
    /\ mainpc = "scrape"
    /\ idx > Len(urls)
    /\ rows' = paired_results
    /\ mainpc' = "saved"
    /\ pc' = [p \in Passes |-> "done"]
    /\ UNCHANGED <<urls, tasks, cur, state, results, attempts, outcome, idx,
                   paired_results>>
    /\ UNCHANGED crawlVars
    /\ UNCHANGED libVars

CeleryNext ==
    \/ CelerySkipInvalid
    \/ CeleryScrapeUrl
    \/ CeleryWriteCsv

CelerySpec == CeleryInit /\ [][CeleryNext]_vars

\* ====================================================== src/WebCrawling.py
BaseDomain == "mfaic.gov.kh"

\* the links of the crawled web: pages of the site, a PDF of the site and a
\* page of another site
Web ==
    {[host |-> BaseDomain, path |-> k, suffix |-> ""] : k \in 1..MaxPages}
    \cup {[host |-> BaseDomain, path |-> 1, suffix |-> ".pdf"],
          [host |-> "other.example", path |-> 1, suffix |-> ""]}

start_url == [host |-> BaseDomain, path |-> 1, suffix |-> ""]

\* every link is an absolute https URL (urljoin), so what is left of
\* is_valid_url is the prefix test
is_valid_url(url, base_domain) == url.host = base_domain

is_useful_link(link) == link.suffix # ".pdf"

\* the path order of the links of a page
Before(a, b) ==
    \/ a.path < b.path
    \/ a.path = b.path /\ a.suffix = "" /\ b.suffix = ".pdf"
    \/ a.path = b.path /\ a.suffix = b.suffix /\ a.host = BaseDomain
                       /\ b.host # BaseDomain

\* what extract_links returns: the links of a page, each once, in the
\* order of the document (here: path order)
LinkLists ==
    UNION {{l \in [1..n -> Web] : \A a, b \in 1..n : a < b => Before(l[a], l[b])} :
           n \in 0..MaxLinks}

CrawlInit ==
    /\ urls = <<>>
    /\ pc = [p \in Passes |-> "off"]
    /\ tasks = [p \in Passes |-> <<>>]
    /\ cur = [p \in Passes |-> 1]
    /\ state = [p \in Passes |-> <<>>]
    /\ results = [p \in Passes |-> <<>>]
    /\ attempts = [p \in Passes |-> <<>>]
    /\ outcome = [p \in Passes |-> <<>>]
    /\ mainpc = "off"
    /\ rows = <<>>
    /\ NoSync
    /\ NoText
    /\ NoAlign
    /\ concurrency \in 1..MaxConcurrency
    /\ max_depth \in 0..MaxDepth
    /\ queue = << [url |-> start_url, depth |-> 0] >>
    /\ visited_urls = {}
    /\ all_links = {}
    /\ handlers = <<>>
    /\ semaphore = concurrency
    /\ crawlpc = "loop"

\* mutant: a URL is not looked up in visited_urls before it is crawled
RECURSIVE PopBatch_NoVisitedCheck(_, _, _)
PopBatch_NoVisitedCheck(q, vis, batch) ==
    IF q = <<>> \/ Len(batch) >= concurrency
    THEN [queue |-> q, visited_urls |-> vis, batch |-> batch]
    ELSE LET e == Head(q) IN
         IF e.depth > max_depth \/ ~is_valid_url(e.url, BaseDomain)
         THEN PopBatch_NoVisitedCheck(Tail(q), vis, batch)
         ELSE PopBatch_NoVisitedCheck(Tail(q), vis \cup {e.url},
                                      Append(batch, e))

\* lines 76-85: fill the batch from the queue
RECURSIVE PopBatch(_, _, _)
PopBatch(q, vis, batch) ==
    IF q = <<>> \/ Len(batch) >= concurrency
    THEN [queue |-> q, visited_urls |-> vis, batch |-> batch]
    ELSE LET e == Head(q) IN
         IF e.url \in vis \/ e.depth > max_depth
                \/ ~is_valid_url(e.url, BaseDomain)
         THEN PopBatch(Tail(q), vis, batch)
         ELSE PopBatch(Tail(q), vis \cup {e.url}, Append(batch, e))

\* lines 72-102: one turn of `while queue` up to `await asyncio.gather`
MakeBatch ==
    /\ crawlpc = "loop"
    /\ queue # <<>>
    /\ LET r == PopBatch(queue, visited_urls, <<>>) IN
        /\ queue' = r.queue
        /\ visited_urls' = r.visited_urls
        /\ handlers' = [h \in 1..Len(r.batch) |->
              [url |-> r.batch[h].url, depth |-> r.batch[h].depth,
               at |-> "wait", links |-> <<>>]]
        /\ crawlpc' = IF r.batch = <<>> THEN "loop" ELSE "gather"
    /\ UNCHANGED <<all_links, semaphore, concurrency, max_depth>>
    /\ UNCHANGED scrapeVars
    /\ UNCHANGED libVars
    /\ UNCHANGED syncVars

\* line 72: the queue is empty, crawl_website returns all_links
CrawlReturn ==
    /\ crawlpc = "loop"
    /\ queue = <<>>
    /\ crawlpc' = "returned"
    /\ UNCHANGED <<queue, visited_urls, all_links, handlers, semaphore,
                   concurrency, max_depth>>
    /\ UNCHANGED scrapeVars
    /\ UNCHANGED libVars
    /\ UNCHANGED syncVars

\* line 118, `async with semaphore`, and the request of extract_links
Acquire(h) ==
    /\ crawlpc = "gather"
    /\ handlers[h].at = "wait"
    /\ semaphore > 0
    /\ semaphore' = semaphore - 1
    /\ handlers' = [handlers EXCEPT ![h].at = "extract"]
    /\ UNCHANGED <<queue, visited_urls, all_links, concurrency, max_depth,
                   crawlpc>>
    /\ UNCHANGED scrapeVars
    /\ UNCHANGED libVars
    /\ UNCHANGED syncVars

\* lines 121-123: the links that are checked with is_url_ok (the others
\* are passed over without waiting)
Checked(links) ==
    SelectSeq(links, LAMBDA l : is_useful_link(l) /\ l.host = BaseDomain)

\* the handler goes on with the links left: it waits for is_url_ok of the
\* first, or the loop is over and the semaphore is released
Proceed(h, left) ==
    IF left = <<>>
    THEN /\ handlers' = [handlers EXCEPT ![h].at = "done", ![h].links = <<>>]
         /\ semaphore' = semaphore + 1
    ELSE /\ handlers' = [handlers EXCEPT ![h].at = "head", ![h].links = left]
         /\ UNCHANGED semaphore

\* line 120: extract_links returns the links of the page
ExtractLinks(h) ==
    /\ crawlpc = "gather"
    /\ handlers[h].at = "extract"
    /\ \E links \in LinkLists : Proceed(h, Checked(links))
    /\ UNCHANGED <<queue, visited_urls, all_links, concurrency, max_depth,
                   crawlpc>>
    /\ UNCHANGED scrapeVars
    /\ UNCHANGED libVars
    /\ UNCHANGED syncVars

\* lines 123-128: is_url_ok returns for the current link
HeadReturns(h) ==
    /\ crawlpc = "gather"
    /\ handlers[h].at = "head"
    /\ LET link == Head(handlers[h].links)
           depth == handlers[h].depth IN
       \E ok \in BOOLEAN :
        /\ IF ok /\ link \notin visited_urls
           THEN /\ all_links' = all_links \cup {link}
                /\ queue' = IF depth + 1 <= max_depth
                            THEN Append(queue, [url |-> link, depth |-> depth + 1])
                            ELSE queue
           ELSE UNCHANGED <<all_links, queue>>
        /\ Proceed(h, Tail(handlers[h].links))
    /\ UNCHANGED <<visited_urls, concurrency, max_depth, crawlpc>>
    /\ UNCHANGED scrapeVars
    /\ UNCHANGED libVars
    /\ UNCHANGED syncVars

\* line 102: every handler of the batch is done, gather returns
GatherReturns ==
    /\ crawlpc = "gather"
    /\ \A h \in 1..Len(handlers) : handlers[h].at = "done"
    /\ handlers' = <<>>
    /\ crawlpc' = "loop"
    /\ UNCHANGED <<queue, visited_urls, all_links, semaphore, concurrency,
                   max_depth>>
    /\ UNCHANGED scrapeVars
    /\ UNCHANGED libVars
    /\ UNCHANGED syncVars

CrawlNext ==
    \/ MakeBatch
    \/ CrawlReturn
    \/ \E h \in 1..Len(handlers) : Acquire(h)
    \/ \E h \in 1..Len(handlers) : ExtractLinks(h)
    \/ \E h \in 1..Len(handlers) : HeadReturns(h)
    \/ GatherReturns

CrawlSpec == CrawlInit /\ [][CrawlNext]_vars

\* crawl_website is called with any concurrency, also none or less
ConfigInit ==
    /\ NoScrape
    /\ NoSync
    /\ NoText
    /\ NoAlign
    /\ concurrency \in (0 - 1)..MaxConcurrency
    /\ max_depth \in 0..MaxDepth
    /\ queue = <<>>
    /\ visited_urls = {}
    /\ all_links = {}
    /\ handlers = <<>>
    /\ semaphore = 0
    /\ crawlpc = "call"

\* lines 52-57: the sets, the queue with the start URL and the semaphore;
\* asyncio.Semaphore raises ValueError for a value below 0
CrawlCall ==
    /\ crawlpc = "call"
    /\ IF concurrency < 0
       THEN /\ crawlpc' = "ValueError"
            /\ UNCHANGED <<queue, semaphore>>
       ELSE /\ queue' = << [url |-> start_url, depth |-> 0] >>
            /\ semaphore' = concurrency
            /\ crawlpc' = "loop"
    /\ UNCHANGED <<visited_urls, all_links, handlers, concurrency, max_depth>>
    /\ UNCHANGED scrapeVars
    /\ UNCHANGED libVars
    /\ UNCHANGED syncVars

ConfigNext == CrawlCall \/ CrawlNext

ConfigSpec == ConfigInit /\ [][ConfigNext]_vars

\* handle_url coroutines that hold the semaphore: a request is pending
Holding == {h \in 1..Len(handlers) : handlers[h].at \in {"extract", "head"}}

\* ============================================= src/KhmerEnglishAligner.py
\* KhmerEnglishAligner.align.  A sentence is a one-element list of its
\* name, a merged text f"{a} {b}" the concatenation of the two lists.
Sentence(lang, i) == << <<lang, i>> >>

\* the cosine similarities the model yields, as levels
Scores == {0, 1}

\* float("-inf"): below every difference of two scores
MinusInfinity == 0 - Cardinality(Scores) - 1

AlignInit ==
    /\ english_sentences \in
          {[i \in 1..n |-> Sentence("en", i)] : n \in 0..MaxEnglish}
    /\ khmer_sentences \in
          {[i \in 1..n |-> Sentence("kh", i)] : n \in 0..MaxKhmer}
    /\ similarities = <<>>
    /\ merge_scores = <<>>
    /\ pairs = <<>>
    /\ merged_english_texts = <<>>
    /\ unused_english_indices = <<>>
    /\ pair_idx = 0
    /\ encoded = 0
    /\ aligned = None
    /\ alignpc = "call"
    /\ NoScrape
    /\ NoSync
    /\ NoCrawl
    /\ NoText

\* lines 60-64: what similarities.argmax() and similarities[best_en_idx]
\* yield for one Khmer sentence among E English sentences
BestMatches(E) == [best_en_idx : 1..E, max_score : Scores]

\* mutant: an English sentence is given to one Khmer sentence only, a Khmer
\* sentence whose best match is taken yields no pair
find_best_matches_Distinct(sims) ==
    LET all == [k \in 1..Len(sims) |->
                  [en |-> sims[k].best_en_idx, km |-> k,
                   score |-> sims[k].max_score]]
        keep == {k \in 1..Len(sims) :
                    \A j \in 1..(k - 1) : all[j].en # all[k].en}
        RECURSIVE Kept(_)
        Kept(k) == IF k > Len(sims) THEN <<>>
                   ELSE (IF k \in keep THEN <<all[k]>> ELSE <<>>) \o Kept(k + 1)
    IN Kept(1)

\* _find_best_matches, lines 56-68: one pair per Khmer sentence, in order
find_best_matches(sims) ==
    [k \in 1..Len(sims) |->
        [en |-> sims[k].best_en_idx, km |-> k, score |-> sims[k].max_score]]

\* lines 153-164 and 90-93: both lists are encoded, the best matches found
\* and the unused English sentences listed.  merge_scores holds what the
\* model will answer for the text of pair k merged with candidate e.
EncodeAndMatch ==
    LET K == Len(khmer_sentences)
        E == Len(english_sentences)
    IN
    \E sims \in [1..K -> BestMatches(E)] :
        LET ps == find_best_matches(sims)
            used_english_indices == {ps[p].en : p \in 1..Len(ps)}
            unused == SelectSeq([e \in 1..E |-> e],
                                LAMBDA e : e \notin used_english_indices)
        IN
        \E ms \in [1..K -> [Range(unused) -> Scores]] :
            /\ similarities' = sims
            /\ merge_scores' = ms
            /\ pairs' = ps
            /\ merged_english_texts' =
                  [p \in 1..Len(ps) |-> english_sentences[ps[p].en]]
            /\ unused_english_indices' = unused
            /\ pair_idx' = 1
            /\ encoded' = E + K
            /\ alignpc' = "merge"
            /\ UNCHANGED aligned

\* mutant: the lists are not checked; empty lists are encoded and an empty
\* alignment is returned
AlignEncode_Unchecked ==
    /\ alignpc = "call"
    /\ IF english_sentences = <<>> \/ khmer_sentences = <<>>
       THEN /\ encoded' = Len(english_sentences) + Len(khmer_sentences)
            /\ aligned' = [english |-> <<>>, khmer |-> <<>>]
            /\ alignpc' = "returned"
            /\ UNCHANGED <<similarities, merge_scores, pairs,
                           merged_english_texts, unused_english_indices,
                           pair_idx>>
       ELSE EncodeAndMatch
    /\ UNCHANGED <<english_sentences, khmer_sentences>>
    /\ UNCHANGED scrapeVars
    /\ UNCHANGED syncVars
    /\ UNCHANGED crawlVars
    /\ UNCHANGED textVars

\* align, lines 144-164: ValueError for an empty list, else steps 1 and 2
AlignEncode ==
    /\ alignpc = "call"
    /\ IF english_sentences = <<>> \/ khmer_sentences = <<>>
       THEN /\ alignpc' = "ValueError"
            /\ UNCHANGED <<similarities, merge_scores, pairs,
                           merged_english_texts, unused_english_indices,
                           pair_idx, encoded, aligned>>
       ELSE EncodeAndMatch
    /\ UNCHANGED <<english_sentences, khmer_sentences>>
    /\ UNCHANGED scrapeVars
    /\ UNCHANGED syncVars
    /\ UNCHANGED crawlVars
    /\ UNCHANGED textVars

\* mutant: a merge is accepted only if it raises the score
NoCandidate_Zero ==
    [best_candidate |-> 0, best_diff |-> 0, best_new_score |-> 0]

\* lines 96-98: best_candidate = None (0), best_diff = float("-inf")
NoCandidate ==
    [best_candidate |-> 0, best_diff |-> MinusInfinity, best_new_score |-> 0]

\* mutant: of candidates with the same score_diff the last one is taken
RECURSIVE BestMerge_LastOfEqual(_, _, _, _)
BestMerge_LastOfEqual(p, candidates, a, best) ==
    IF a > Len(candidates) THEN best
    ELSE LET unused_en_idx == candidates[a]
             new_score == merge_scores[p][unused_en_idx]
             score_diff == new_score - pairs[p].score
         IN IF score_diff >= best.best_diff
            THEN BestMerge_LastOfEqual(p, candidates, a + 1,
                           [best_candidate |-> unused_en_idx,
                            best_diff |-> score_diff,
                            best_new_score |-> new_score])
            ELSE BestMerge_LastOfEqual(p, candidates, a + 1, best)

\* lines 100-113: the unused sentence with the largest score_diff for pair
\* p, the first one of them
RECURSIVE BestMerge(_, _, _, _)
BestMerge(p, candidates, a, best) ==
    IF a > Len(candidates) THEN best
    ELSE LET unused_en_idx == candidates[a]
             new_score == merge_scores[p][unused_en_idx]
             score_diff == new_score - pairs[p].score
         IN IF score_diff > best.best_diff
            THEN BestMerge(p, candidates, a + 1,
                           [best_candidate |-> unused_en_idx,
                            best_diff |-> score_diff,
                            best_new_score |-> new_score])
            ELSE BestMerge(p, candidates, a + 1, best)

\* mutant: the chosen candidate stays in the unused pool
MergePair_KeepsPool ==
    /\ alignpc = "merge"
    /\ pair_idx <= Len(pairs)
    /\ LET best == BestMerge(pair_idx, unused_english_indices, 1, NoCandidate)
       IN IF best.best_candidate # 0
          THEN /\ merged_english_texts' =
                     [merged_english_texts EXCEPT ![pair_idx] =
                         @ \o english_sentences[best.best_candidate]]
               /\ pairs' = [pairs EXCEPT ![pair_idx].score = best.best_new_score]
               /\ UNCHANGED unused_english_indices
          ELSE UNCHANGED <<merged_english_texts, pairs, unused_english_indices>>
    /\ encoded' = encoded + Len(unused_english_indices)
    /\ pair_idx' = pair_idx + 1
    /\ UNCHANGED <<english_sentences, khmer_sentences, similarities,
                   merge_scores, aligned, alignpc>>
    /\ UNCHANGED scrapeVars
    /\ UNCHANGED syncVars
    /\ UNCHANGED crawlVars
    /\ UNCHANGED textVars

\* _merge_unused_sentences, lines 95-119: one turn of the loop over pairs
MergePair ==
    /\ alignpc = "merge"
    /\ pair_idx <= Len(pairs)
    /\ LET best == BestMerge(pair_idx, unused_english_indices, 1, NoCandidate)
       IN IF best.best_candidate # 0
          THEN /\ merged_english_texts' =
                     [merged_english_texts EXCEPT ![pair_idx] =
                         @ \o english_sentences[best.best_candidate]]
               /\ pairs' = [pairs EXCEPT ![pair_idx].score = best.best_new_score]
               /\ unused_english_indices' =
                     SelectSeq(unused_english_indices,
                               LAMBDA c : c # best.best_candidate)
          ELSE UNCHANGED <<merged_english_texts, pairs, unused_english_indices>>
    /\ encoded' = encoded + Len(unused_english_indices)
    /\ pair_idx' = pair_idx + 1
    /\ UNCHANGED <<english_sentences, khmer_sentences, similarities,
                   merge_scores, aligned, alignpc>>
    /\ UNCHANGED scrapeVars
    /\ UNCHANGED syncVars
    /\ UNCHANGED crawlVars
    /\ UNCHANGED textVars

\* mutant: the English sentences left unused are added to the last pair
AlignReturn_KeepsLeftover ==
    /\ alignpc = "merge"
    /\ pair_idx > Len(pairs)
    /\ LET RECURSIVE Leftover(_)
           Leftover(a) ==
               IF a > Len(unused_english_indices) THEN <<>>
               ELSE english_sentences[unused_english_indices[a]]
                        \o Leftover(a + 1)
       IN aligned' = [english |-> [merged_english_texts
                                      EXCEPT ![Len(pairs)] = @ \o Leftover(1)],
                      khmer |-> [p \in 1..Len(pairs) |->
                                    khmer_sentences[pairs[p].km]]]
    /\ alignpc' = "returned"
    /\ UNCHANGED <<english_sentences, khmer_sentences, similarities,
                   merge_scores, pairs, merged_english_texts,
                   unused_english_indices, pair_idx, encoded>>
    /\ UNCHANGED scrapeVars
    /\ UNCHANGED syncVars
    /\ UNCHANGED crawlVars
    /\ UNCHANGED textVars

\* align, lines 166-170: the merged English texts and the Khmer sentences
\* of the pairs
AlignReturn ==
    /\ alignpc = "merge"
    /\ pair_idx > Len(pairs)
    /\ aligned' = [english |-> merged_english_texts,
                   khmer |-> [p \in 1..Len(pairs) |->
                                 khmer_sentences[pairs[p].km]]]
    /\ alignpc' = "returned"
    /\ UNCHANGED <<english_sentences, khmer_sentences, similarities,
                   merge_scores, pairs, merged_english_texts,
                   unused_english_indices, pair_idx, encoded>>
    /\ UNCHANGED scrapeVars
    /\ UNCHANGED syncVars
    /\ UNCHANGED crawlVars
    /\ UNCHANGED textVars

AlignNext ==
    \/ AlignEncode
    \/ MergePair
    \/ AlignReturn

AlignSpec == AlignInit /\ [][AlignNext]_vars

\* ================================== src/main.py: the text functions
\* A string is the sequence of its characters.
Rep(c, n) == [j \in 1..n |-> c]

\* U+1780..U+17FF; the sign "។" is in the block and is no letter
KhmerBlock == {"ក", "ខ", "។"}

\* char.isalpha() and ord(char) < 128
AsciiLetters == {"a"}

\* char.isalnum()
Alnum == {"ក", "ខ", "a", "1"}

\* the characters of the symbol_patterns, lines 657-673
PatternSymbols ==
    {"*", "-", ".", "=", "_", "#", "+", "~", "!", "@", "%", "&", "|", "\\", "/"}

\* punctuation: the pattern symbols and some that have no pattern
Punctuation == PatternSymbols \cup {"?", ",", ":", "។"}

Count(text, chars) == Cardinality({j \in 1..Len(text) : text[j] \in chars})

\* str.strip()
RECURSIVE strip(_)
strip(text) ==
    IF text = <<>> THEN text
    ELSE IF Head(text) = " " THEN strip(Tail(text))
    ELSE IF text[Len(text)] = " " THEN strip(SubSeq(text, 1, Len(text) - 1))
    ELSE text

\* str.endswith("។")
EndsWithKhan(text) == text # <<>> /\ text[Len(text)] = "។"

\* "។" in text
HasKhan(text) == \E j \in 1..Len(text) : text[j] = "។"

\* mutant: the thresholds are inclusive (>= 0.3, >= 0.5)
detect_language_Inclusive(text) ==
    IF text = <<>> THEN "english"
    ELSE LET khmer_chars == Count(text, KhmerBlock)
             english_chars == Count(text, AsciiLetters)
             total_chars == Len(text) - Count(text, {" "})
         IN IF total_chars = 0 THEN "english"
            ELSE IF 10 * khmer_chars >= 3 * total_chars THEN "khmer"
            ELSE IF 2 * english_chars >= total_chars THEN "english"
            ELSE "mixed"

\* detect_language, lines 612-635.  The quotients are floats: k / n > 0.3
\* holds exactly when 10 k > 3 n, and l / n > 0.5 exactly when 2 l > n
\* (both sides of each comparison round the same way for such k, l, n).
detect_language(text) ==
    IF text = <<>> THEN "english"
    ELSE LET khmer_chars == Count(text, KhmerBlock)
             english_chars == Count(text, AsciiLetters)
             total_chars == Len(text) - Count(text, {" "})
         IN IF total_chars = 0 THEN "english"
            ELSE IF 10 * khmer_chars > 3 * total_chars THEN "khmer"
            ELSE IF 2 * english_chars > total_chars THEN "english"
            ELSE "mixed"

\* lines 566-568, 580-582: the accumulated text is appended first
Flush(result, temp) ==
    IF temp # <<>> THEN Append(result, strip(temp)) ELSE result

\* join_khmer_sentences of src/main.py, lines 559-600: the loop from data[j]
RECURSIVE JoinFrom(_, _, _, _, _)
JoinFrom(data, post_content_p_texts, j, result, temp) ==
    IF j > Len(data) THEN Flush(result, temp)
    ELSE LET text == data[j] IN
         IF text = <<>>
         THEN JoinFrom(data, post_content_p_texts, j + 1,
                       Append(Flush(result, temp), <<>>), <<>>)
         ELSE IF detect_language(text) # "khmer"
         THEN JoinFrom(data, post_content_p_texts, j + 1, result, temp)
         ELSE IF text \notin post_content_p_texts
         THEN JoinFrom(data, post_content_p_texts, j + 1,
                       Append(Flush(result, temp), text), <<>>)
         ELSE IF ~EndsWithKhan(text)
         THEN JoinFrom(data, post_content_p_texts, j + 1, result,
                       temp \o text \o <<" ">>)
         ELSE JoinFrom(data, post_content_p_texts, j + 1,
                       Append(result, temp \o text), <<>>)

\* mutant: the placeholders are passed over
join_khmer_sentences_SkipEmpty(data, post_content_p_texts) ==
    JoinFrom(SelectSeq(data, LAMBDA text : text # <<>>), post_content_p_texts,
             1, <<>>, <<>>)

join_khmer_sentences(data, post_content_p_texts) ==
    JoinFrom(data, post_content_p_texts, 1, <<>>, <<>>)

\* src/MoFA.py lines 432-445 and src/Celery/scraper.py lines 234-245: the
\* loop over the items after the first
RECURSIVE JoinItems(_, _, _, _)
JoinItems(items, j, result, temp) ==
    IF j > Len(items)
    THEN (IF temp # <<>> THEN Append(result, strip(temp)) ELSE result)
    ELSE LET item == strip(items[j]) IN
         IF ~EndsWithKhan(item)
         THEN JoinItems(items, j + 1, result, temp \o item \o <<" ">>)
         ELSE JoinItems(items, j + 1, Append(result, temp \o item), <<>>)

\* src/Celery/scraper.py lines 219-247
join_khmer_sentences_celery(data) ==
    IF ~(\E j \in 1..Len(data) : HasKhan(data[j])) THEN data
    ELSE IF data = <<>> THEN <<>>
    ELSE JoinItems(Tail(data), 1, <<Head(data)>>, <<>>)

\* src/MoFA.py lines 409-447
join_khmer_sentences_mofa(data) ==
    LET khmer_texts ==
            SelectSeq(data, LAMBDA text : detect_language(text) = "khmer")
    IN IF khmer_texts = <<>> THEN <<>>
       ELSE join_khmer_sentences_celery(khmer_texts)

\* clean_text, lines 69-77: whitespace is trimmed (and runs of it made one
\* blank), a text of dashes and blanks and a text that is one dot become ""
clean_text(text) ==
    LET stripped == strip(text) IN
    IF stripped = <<>> THEN <<>>
    ELSE IF \A j \in 1..Len(stripped) : stripped[j] \in {"-", " "} THEN <<>>
    ELSE IF stripped = <<".">> THEN <<>>
    ELSE stripped

\* is_symbol_only_text, lines 647-688
is_symbol_only_text(text) ==
    LET clean == strip(text)
        no_space_text == SelectSeq(clean, LAMBDA c : c # " ")
    IN
    IF text = <<>> \/ clean = <<>> THEN TRUE
    ELSE IF \E c \in PatternSymbols :
                Len(clean) >= MinSymbolRun /\ clean = Rep(c, Len(clean))
    THEN TRUE
    ELSE IF /\ no_space_text # <<>>
            /\ \A j \in 1..Len(no_space_text) : no_space_text[j] \notin Alnum
            /\ Len(no_space_text) < ShortSymbolLen
    THEN TRUE
    ELSE FALSE

\* the selectors of content_selectors, lines 159-165, by what lines
\* 193-198 make of them
ContentSelectors == {"div.post-content p", "span:not", "div.header-title.p"}

\* extract_content, lines 181-192, for the text of one element: what
\* all_texts holds afterwards
extract_element(text) ==
    LET cleaned_text == clean_text(strip(text)) IN
    IF strip(text) = <<>> THEN <<>>
    ELSE IF cleaned_text = <<>> \/ Len(cleaned_text) < MinTextLen THEN <<>>
    ELSE IF is_symbol_only_text(cleaned_text) THEN <<>>
    ELSE <<cleaned_text>>

\* mutant: a text of the other language becomes "" whatever its element
RouteText_AlwaysPlaceholder(text, own, is_span_text) ==
    LET lang == detect_language(text) IN
    IF lang \in {own, "mixed"} THEN text ELSE <<>>

\* lines 266-288: where a text of all_texts goes in the stream of the
\* language that is scraped ("1" English, "3" Khmer)
RouteText(text, own, is_span_text) ==
    LET lang == detect_language(text) IN
    IF lang \in {own, "mixed"} THEN text
    ELSE IF is_span_text THEN <<>>
    ELSE text

\* extract_content, lines 179-298, of a page whose only text is one element
\* matched by the selector
extract_content_of_element(text, selector, language) ==
    LET all_texts == extract_element(text)
        is_span == selector = "span:not"
        post_content_p_texts ==
            IF selector = "div.post-content p" THEN Range(all_texts) ELSE {}
        english_texts ==
            IF language = "1"
            THEN [j \in 1..Len(all_texts) |->
                      RouteText(all_texts[j], "english", is_span)]
            ELSE <<>>
        khmer_texts ==
            IF language = "3"
            THEN [j \in 1..Len(all_texts) |->
                      RouteText(all_texts[j], "khmer", is_span)]
            ELSE <<>>
    IN [english |-> english_texts,
        khmer |-> IF khmer_texts # <<>>
                  THEN join_khmer_sentences(khmer_texts, post_content_p_texts)
                  ELSE <<>>]

\* ------------------------------------------------------------ the inputs
\* fragments of a Khmer stream: the placeholder "", Khmer text with and
\* without the final "។", Khmer text with "។" inside, and sentences that
\* end in "។" but are mostly Latin letters (English) or digits (mixed)
Fragments ==
    { <<>>,
      <<"ក", "ក", "ក">>,
      <<"ខ", "ខ", "ខ">>,
      <<"ក", "ក", "។">>,
      <<"ក", "។", "ខ">>,
      <<"a", "a", "a", "។">>,
      <<"a", "1", "1", "។">> }

\* a call of join_khmer_sentences: the fragment list and the set of the
\* texts that came from post-content p elements
JoinArgs ==
    UNION {{[kind |-> "join", data |-> d, post_content_p_texts |-> ps] :
                ps \in SUBSET (Range(d) \ {<<>>})} :
           d \in UNION {[1..n -> Fragments] : n \in 0..MaxFrags}}

\* a text of k Khmer letters, l Latin letters, o digits and b blanks
TextArgs ==
    {[kind |-> "text",
      text |-> Rep("ក", k) \o Rep(" ", b) \o Rep("a", l) \o Rep("1", o)] :
        k \in 0..MaxChars, l \in 0..MaxChars, o \in 0..MaxChars, b \in 0..1}

\* the text of an element: a run of one punctuation character, a run with
\* a letter in it, a word
ElementTexts ==
    UNION {{Rep(c, n), Rep(c, n) \o <<"a">>} :
           c \in Punctuation \cup {"a", "ក"}, n \in 1..MaxRun}

ElementArgs ==
    {[kind |-> "element", text |-> t, selector |-> sel, language |-> l] :
        t \in ElementTexts, sel \in ContentSelectors, l \in {"1", "3"}}

TextInit ==
    /\ arg \in JoinArgs \cup {a \in TextArgs : Len(a.text) <= MaxChars + 1}
                        \cup ElementArgs
    /\ ret = None
    /\ NoScrape
    /\ NoSync
    /\ NoCrawl
    /\ NoAlign

\* the call returns
Return(fn, value) ==
    /\ ret = None
    /\ ret' = [fn |-> fn, value |-> value]
    /\ UNCHANGED arg
    /\ UNCHANGED scrapeVars
    /\ UNCHANGED syncVars
    /\ UNCHANGED crawlVars
    /\ UNCHANGED alignVars

JoinKhmerSentences ==
    /\ arg.kind = "join"
    /\ Return("main.join_khmer_sentences",
              join_khmer_sentences(arg.data, arg.post_content_p_texts))

JoinKhmerSentencesMoFA ==
    /\ arg.kind = "join"
    /\ arg.post_content_p_texts = {}
    /\ Return("MoFA.join_khmer_sentences", join_khmer_sentences_mofa(arg.data))

JoinKhmerSentencesCelery ==
    /\ arg.kind = "join"
    /\ arg.post_content_p_texts = {}
    /\ Return("Celery.join_khmer_sentences",
              join_khmer_sentences_celery(arg.data))

DetectLanguage ==
    /\ arg.kind = "text"
    /\ Return("detect_language", detect_language(arg.text))

ExtractElement ==
    /\ arg.kind = "element"
    /\ Return("extract_content",
              extract_content_of_element(arg.text, arg.selector, arg.language))

TextNext ==
    \/ JoinKhmerSentences
    \/ JoinKhmerSentencesMoFA
    \/ JoinKhmerSentencesCelery
    \/ DetectLanguage
    \/ ExtractElement

TextSpec == TextInit /\ [][TextNext]_vars

\* ------------------------------------- src/main.py: extract_content
\* A page is the sequence of its text elements in document order.  The kind
\* of an element says which selectors find it: "h5" and "card h5" are found
\* by the heading selector h5 and "card h5" by the card selectors too, "p"
\* is a p of div.post-content, "card p" a p of a card, "li" an item of an ol.
ElementKinds == {"h4", "h5", "card h5", "p", "span", "card p", "li"}

\* a Khmer, an English and a mixed text
PageTexts == { <<"ក", "ក", "ក">>, <<"a", "a", "a">>, <<"a", "1", "1">> }

Pages ==
    UNION {[1..n -> [kind : ElementKinds, text : PageTexts]] :
           n \in 0..MaxElements}

\* soup.select: the texts of the elements of some kinds, in document order
TextsOf(page, kinds) ==
    LET found == SelectSeq(page, LAMBDA el : el.kind \in kinds)
    IN [j \in 1..Len(found) |-> found[j].text]

\* line 171: elements[1:]
SkipFirst(elements) == IF elements = <<>> THEN <<>> ELSE Tail(elements)

\* mutant: every loop tests `not in all_texts`, the heading loop too
AppendTexts_AlwaysDedupe(all_texts, texts, dedupe) ==
    LET RECURSIVE Go(_, _)
        Go(all, rest) ==
            IF rest = <<>> THEN all
            ELSE LET e == extract_element(Head(rest)) IN
                 IF e = <<>> \/ e[1] \in Range(all)
                 THEN Go(all, Tail(rest))
                 ELSE Go(Append(all, e[1]), Tail(rest))
    IN Go(all_texts, texts)

\* one loop over found elements (lines 115-129, 142-157, 179-198, 213-226,
\* 237-252): the cleaned text of at least 3 characters that is no symbol
\* run is appended; all loops but the heading loop (line 125) first test
\* `cleaned_text not in all_texts`
RECURSIVE AppendTexts(_, _, _)
AppendTexts(all_texts, texts, dedupe) ==
    IF texts = <<>> THEN all_texts
    ELSE LET e == extract_element(Head(texts)) IN
         IF e = <<>> \/ (dedupe /\ e[1] \in Range(all_texts))
         THEN AppendTexts(all_texts, Tail(texts), dedupe)
         ELSE AppendTexts(Append(all_texts, e[1]), Tail(texts), dedupe)

\* lines 104-252: all_texts after the loops, and the sets of marked texts:
\* h5 texts (lines 128-129, 156-157), and span texts and post-content p
\* texts, which are marked when their loop appended them (lines 193-198)
ExtractTexts(page) ==
    LET after_h4 == AppendTexts(<<>>, TextsOf(page, {"h4"}), FALSE)
        after_headings ==
            AppendTexts(after_h4, TextsOf(page, {"h5", "card h5"}), FALSE)
        after_card_headings ==
            AppendTexts(after_headings, TextsOf(page, {"card h5"}), TRUE)
        after_paragraphs ==
            AppendTexts(after_card_headings, SkipFirst(TextsOf(page, {"p"})),
                        TRUE)
        after_spans ==
            AppendTexts(after_paragraphs, TextsOf(page, {"span"}), TRUE)
        after_cards ==
            AppendTexts(after_spans, TextsOf(page, {"card p"}), TRUE)
    IN [all_texts |-> AppendTexts(after_cards, TextsOf(page, {"li"}), TRUE),
        h5_texts |-> Range(after_headings) \ Range(after_h4),
        span_texts |-> Range(after_spans) \ Range(after_paragraphs),
        post_content_p_texts |->
            Range(after_paragraphs) \ Range(after_card_headings)]

\* the stream of the scraped language before joining, lines 257-288
RoutedTexts(x, own) ==
    [j \in 1..Len(x.all_texts) |->
        RouteText(x.all_texts[j], own,
                  x.all_texts[j] \in x.h5_texts \cup x.span_texts)]

\* line 91
EmptyContent == [english |-> <<>>, khmer |-> <<>>]

\* mutant: what was extracted before the error is returned
extract_content_of_page_Partial(page, language, error) ==
    LET x == ExtractTexts(page)
        english_texts ==
            IF language = "1" THEN RoutedTexts(x, "english") ELSE <<>>
        khmer_texts ==
            IF language = "3" THEN RoutedTexts(x, "khmer") ELSE <<>>
    IN [content |-> [english |-> english_texts, khmer |-> khmer_texts],
        error |-> error,
        all_texts |-> x.all_texts,
        english_texts |-> english_texts,
        khmer_texts |-> khmer_texts,
        placeholder_texts |-> x.h5_texts \cup x.span_texts]

\* extract_content, lines 91-312, with its locals when it returns.  An
\* exception in the try block (error) is logged and the content of line 91
\* is returned: content is assigned only at lines 293-296, after the last
\* call of the block.
extract_content_of_page(page, language, error) ==
    LET x == ExtractTexts(page)
        english_texts ==
            IF language = "1" THEN RoutedTexts(x, "english") ELSE <<>>
        khmer_texts ==
            IF language = "3" THEN RoutedTexts(x, "khmer") ELSE <<>>
    IN [content |->
            IF error THEN EmptyContent
            ELSE [english |-> english_texts,
                  khmer |-> IF khmer_texts # <<>>
                            THEN join_khmer_sentences(khmer_texts,
                                                      x.post_content_p_texts)
                            ELSE <<>>],
        error |-> error,
        all_texts |-> x.all_texts,
        english_texts |-> english_texts,
        khmer_texts |-> khmer_texts,
        placeholder_texts |-> x.h5_texts \cup x.span_texts]

\* src/Celery/scraper.py lines 138-176: h4 headings without a test for
\* duplicates, then p and span texts with it; no symbol filter
RECURSIVE AppendTextsCelery(_, _, _)
AppendTextsCelery(all_texts, texts, dedupe) ==
    IF texts = <<>> THEN all_texts
    ELSE LET cleaned_text == clean_text(strip(Head(texts))) IN
         IF \/ Len(cleaned_text) < MinTextLen
            \/ (dedupe /\ cleaned_text \in Range(all_texts))
         THEN AppendTextsCelery(all_texts, Tail(texts), dedupe)
         ELSE AppendTextsCelery(Append(all_texts, cleaned_text), Tail(texts),
                                dedupe)

AllTextsCelery(page) ==
    AppendTextsCelery(
        AppendTextsCelery(
            AppendTextsCelery(<<>>, TextsOf(page, {"h4"}), FALSE),
            SkipFirst(TextsOf(page, {"p"})), TRUE),
        TextsOf(page, {"span"}), TRUE)

\* src/Celery/scraper.py lines 122-205: the texts classified Khmer are
\* joined, the others are the English stream.  content["english"] is
\* assigned at line 193, before the call of join_khmer_sentences, which
\* works on the strings of all_texts and raises nothing: an error is one of
\* the calls on the soup, before line 193.
extract_content_celery(page, error) ==
    LET all_texts == AllTextsCelery(page)
        khmer_fragments ==
            SelectSeq(all_texts, LAMBDA text : detect_language(text) = "khmer")
        english_texts ==
            SelectSeq(all_texts, LAMBDA text : detect_language(text) # "khmer")
    IN [content |->
            IF error THEN EmptyContent
            ELSE [english |-> english_texts,
                  khmer |-> IF khmer_fragments # <<>>
                            THEN join_khmer_sentences_celery(khmer_fragments)
                            ELSE <<>>],
        error |-> error,
        all_texts |-> all_texts,
        english_texts |-> english_texts,
        khmer_texts |-> khmer_fragments,
        placeholder_texts |-> {}]

PageArgs ==
    {[kind |-> "page", page |-> pg, language |-> l] :
        pg \in Pages, l \in {"1", "3"}}

ExtractInit ==
    /\ arg \in PageArgs
    /\ ret = None
    /\ NoScrape
    /\ NoSync
    /\ NoCrawl
    /\ NoAlign

\* extract_content of src/main.py returns; error: something in the try
\* block raised
ExtractContent ==
    /\ arg.kind = "page"
    /\ \E error \in BOOLEAN :
          Return("main.extract_content",
                 extract_content_of_page(arg.page, arg.language, error))

\* extract_content of src/Celery/scraper.py returns
ExtractContentCelery ==
    /\ arg.kind = "page"
    /\ \E error \in BOOLEAN :
          Return("Celery.extract_content",
                 extract_content_celery(arg.page, error))

ExtractNext ==
    \/ ExtractContent
    \/ ExtractContentCelery

ExtractSpec == ExtractInit /\ [][ExtractNext]_vars

\* Both programs that fetch concurrently: a run of main() or a run of
\* crawl_website
FetchInit == Init \/ CrawlInit

FetchNext == Next \/ CrawlNext

FetchSpec == FetchInit /\ [][FetchNext]_vars

\* the event loop resumes every coroutine that can run, and a pending
\* request ends with its answer, its failure or its timeout
FairSpec == Spec /\ WF_vars(Next)

\* ================================================================ claims
\* positions of the results of URL id i in the results list of pass p
ResultsOf(p, i) == {k \in 1..Len(results[p]) : results[p][k].id = i}

\* C1: scrape_multiple_urls returns exactly one result per input URL; an
\* invalid URL and a URL whose fetch failed each contribute the empty
\* placeholder result.
C1_OneResultPerUrl ==
    \A p \in DOMAIN results :
        pc[p] = "done" =>
            /\ Len(results[p]) = Len(urls)
            /\ \A i \in 1..Len(urls) :
                (~validate_url(urls[i]) \/ outcome[p][i] \in Failed) =>
                    \E k \in ResultsOf(p, i) : results[p][k] = Placeholder(i)

\* C2: the k-th result of scrape_multiple_urls belongs to the k-th input
\* URL, for every mix of invalid, failed and successful URLs.
C2_ResultsFollowInputOrder ==
    \A p \in Passes :
        pc[p] = "done" =>
            \A k \in 1..Len(results[p]) : results[p][k].id = k

\* C3: the IDs of the written rows are unique and strictly increasing
\* over the whole run.
C3_IdsStrictlyIncreasing ==
    \A k \in 2..Len(rows) : rows[k].ID > rows[k - 1].ID

\* C4: for every URL the CSV rows carry the whole English stream and the
\* whole Khmer stream, the shorter one padded with "" up to the length of
\* the longer one (one row of two empty fields when both are empty).
BlockLen(k) ==
    Max(1, Max(Len(results["1"][k].english_texts),
               Len(results["3"][k].khmer_texts)))

RECURSIVE BlockStart(_)
BlockStart(k) == IF k = 1 THEN 0 ELSE BlockStart(k - 1) + BlockLen(k - 1)

C4_StreamsPaddedToEqualLength ==
    mainpc = "saved" =>
        /\ Len(rows) = BlockStart(Len(urls) + 1)
        /\ \A k \in 1..Len(urls) : \A j \in 1..BlockLen(k) :
            LET row == rows[BlockStart(k) + j] IN
            /\ row.English_Text = PadAt(results["1"][k].english_texts, j)
            /\ row.Khmer_Text = PadAt(results["3"][k].khmer_texts, j)

C4_Witness ==
    /\ mainpc = "saved"
    /\ \E k \in 1..Len(urls) :
        /\ Len(results["1"][k].english_texts) = 1
        /\ Len(results["3"][k].khmer_texts) = 2
    /\ \E k \in 1..Len(urls) :
        /\ Len(results["1"][k].english_texts) > 0
        /\ Len(results["3"][k].khmer_texts) = 0

C6_FailureIsolated ==
    \A p \in Passes :
        /\ pc[p] # "raised"
        /\ pc[p] = "done" =>
            \A i \in 1..Len(urls) :
                /\ validate_url(urls[i]) => attempts[p][i] >= 1
                /\ Cardinality(ResultsOf(p, i)) = 1

C6_Witness ==
    \E p \in Passes : \E i, j \in 1..Len(urls) :
        /\ i < j
        /\ pc[p] = "done"
        /\ outcome[p][i] \in Failed
        /\ outcome[p][j] = "ok"
        /\ \E k \in ResultsOf(p, j) : results[p][k] # Placeholder(j)

\* C7: a permanent failure (HTTP error status, non-HTML content type,
\* parse error) is never retried: the URL was requested exactly once and
\* its result is the empty placeholder.
C7_PermanentNotRetried ==
    \A p \in Passes : \A i \in 1..Len(urls) :
        outcome[p][i] = "permanent" =>
            /\ attempts[p][i] = 1
            /\ state[p][i] = "done"
            /\ \A k \in ResultsOf(p, i) : results[p][k] = Placeholder(i)
            /\ ResultsOf(p, i) # {}

C7_Witness ==
    \E p \in Passes : \E i \in 1..Len(urls) :
        /\ outcome[p][i] = "permanent"
        /\ mainpc = "saved"

\* C8: never more fetches in flight than the concurrency limit.  In main()
\* each pass awaits its coroutines one after the other, so the two passes
\* together have at most two requests in flight, below the connection
\* limit; in crawl_website at most `concurrency` handlers hold the
\* semaphore, whose value never drops below zero.
C8_BoundedInFlight ==
    /\ InFlight("1") + InFlight("3") <= Cardinality(Passes)
    /\ Cardinality(Passes) <= ConnectorLimit
    /\ Cardinality(Holding) <= concurrency
    /\ semaphore = concurrency - Cardinality(Holding)

C8_Witness ==
    /\ InFlight("1") = 1
    /\ InFlight("3") = 1
    /\ \A p \in Passes : \E i \in 1..Len(urls) : state[p][i] = "created"

\* C9: a fetch that never completes does not stall the run: its timeout
\* records the empty result for it, and the run ends having written the
\* CSV with a result for every URL in both passes.
C9_HungFetchDoesNotStall ==
    /\ [](\A p \in Passes : \A i \in 1..Len(urls) :
            outcome[p][i] = "timeout" =>
                \E k \in ResultsOf(p, i) : results[p][k] = Placeholder(i))
    /\ <>(/\ mainpc = "saved"
          /\ \A p \in Passes : \A i \in 1..Len(urls) : ResultsOf(p, i) # {})

C9_Witness ==
    /\ mainpc = "saved"
    /\ \E p \in Passes : \E i, j \in 1..Len(urls) :
        /\ i < j
        /\ outcome[p][i] = "timeout"
        /\ outcome[p][j] = "ok"

\* C10: every record is written exactly once and in ID order, and a URL
\* without any text (invalid, failed or empty page) still yields one row
\* of two empty fields: the file has max(1, number of texts) rows per URL.
EnglishTexts(i) ==
    UNION {UNION {Range(results[p][k].english_texts) : k \in ResultsOf(p, i)} :
           p \in DOMAIN results}

KhmerTexts(i) ==
    UNION {UNION {Range(results[p][k].khmer_texts) : k \in ResultsOf(p, i)} :
           p \in DOMAIN results}

RECURSIVE RowsExpected(_)
RowsExpected(n) ==
    IF n = 0 THEN 0
    ELSE RowsExpected(n - 1)
         + Max(1, Max(Cardinality(EnglishTexts(n)), Cardinality(KhmerTexts(n))))

C10_EveryRecordWrittenOnce ==
    mainpc = "saved" =>
        /\ \A k \in 2..Len(rows) : rows[k].ID >= rows[k - 1].ID
        /\ \A i \in 1..Len(urls) : \A t \in EnglishTexts(i) \cup KhmerTexts(i) :
            Cardinality({r \in 1..Len(rows) :
                rows[r].English_Text = t \/ rows[r].Khmer_Text = t}) = 1
        /\ Len(rows) = RowsExpected(Len(urls))

\* the rows that carry a text of URL id i
RowsWithTextOf(i) ==
    {r \in 1..Len(rows) :
        \/ \E j \in 1..MaxTexts : rows[r].English_Text = Text(i, "en", j)
        \/ \E j \in 1..MaxTexts : rows[r].Khmer_Text = Text(i, "kh", j)}

\* the URLs whose English and Khmer streams are both non-empty and of
\* different length
UnequalUrls ==
    {i \in 1..Len(urls) :
        /\ EnglishTexts(i) # {} /\ KhmerTexts(i) # {}
        /\ Cardinality(EnglishTexts(i)) # Cardinality(KhmerTexts(i))}

C13_EmptyListRaisesFirst ==
    /\ (english_sentences = <<>> \/ khmer_sentences = <<>>) /\ alignpc # "call"
          => /\ alignpc = "ValueError"
             /\ encoded = 0
             /\ pairs = <<>>
             /\ aligned = None
    /\ alignpc = "ValueError" =>
          english_sentences = <<>> \/ khmer_sentences = <<>>

C13_Witness ==
    /\ alignpc = "ValueError"
    /\ english_sentences = <<>>
    /\ khmer_sentences # <<>>

\* The scenario of C14: two Khmer and three English sentences, Khmer[0]
\* best matches English[1] and Khmer[1] best matches English[2] (counted
\* from 1 here: sentences 2 and 3), so English[0] is unused.
C14_Scenario ==
    /\ alignpc = "returned"
    /\ Len(khmer_sentences) = 2
    /\ Len(english_sentences) = 3
    /\ similarities[1].best_en_idx = 2
    /\ similarities[2].best_en_idx = 3

\* what merging English[0] into pair p does to the score of the pair
ScoreDrop(p) == merge_scores[p][1] - similarities[p].max_score

\* C14 as stated: in the scenario English[0] goes to the pair whose score
\* drops least, and the output has 2 pairs.
C14_MergedIntoLeastNegativeDrop ==
    C14_Scenario =>
        /\ Len(aligned.english) = 2
        /\ Len(aligned.khmer) = 2
        /\ \E p \in 1..2 :
            /\ aligned.english[p] =
                  english_sentences[pairs[p].en] \o english_sentences[1]
            /\ \A q \in 1..2 : ScoreDrop(q) <= ScoreDrop(p)

\* C14 amended: in the scenario English[0] is merged into the first pair,
\* the one of Khmer[0], whatever the score drops are; the second pair keeps
\* its English sentence and the output has 2 pairs.
C14_MergedIntoFirstPair ==
    C14_Scenario =>
        /\ aligned.english = << english_sentences[2] \o english_sentences[1],
                                english_sentences[3] >>
        /\ aligned.khmer = khmer_sentences
        /\ Len(aligned.english) = 2

C14_Witness ==
    /\ C14_Scenario
    /\ ScoreDrop(1) < 0
    /\ ScoreDrop(2) > ScoreDrop(1)

\* a call of one of the three join_khmer_sentences has returned
JoinReturned ==
    /\ ret # None
    /\ ret.fn \in {"main.join_khmer_sentences", "MoFA.join_khmer_sentences",
                   "Celery.join_khmer_sentences"}

\* every element of the list is a sentence that ends in "។"
AllTerminated(data) == \A j \in 1..Len(data) : EndsWithKhan(data[j])

\* C15: joining a list of sentences that each end in "។" returns the same
\* list: no element is split, merged, dropped or moved.
C15_JoinKeepsTerminatedSentences ==
    (JoinReturned /\ AllTerminated(arg.data)) => ret.value = arg.data

\* a call of detect_language has returned
DetectReturned == ret # None /\ ret.fn = "detect_language"

\* the counts of the classified text: Khmer-block characters, Latin
\* letters, characters that are no blank
KhmerChars == Count(arg.text, KhmerBlock)

LatinChars == Count(arg.text, AsciiLetters)

TotalChars == Len(arg.text) - Count(arg.text, {" "})

\* C16 as stated: a Khmer ratio of exactly 0.3 gives Mixed and a greater
\* one Khmer; a Latin ratio of exactly 0.5 gives Mixed and a greater one
\* English.
C16_BoundariesAsStated ==
    (DetectReturned /\ TotalChars > 0) =>
        /\ 10 * KhmerChars = 3 * TotalChars => ret.value = "mixed"
        /\ 10 * KhmerChars > 3 * TotalChars => ret.value = "khmer"
        /\ 2 * LatinChars = TotalChars => ret.value = "mixed"
        /\ 2 * LatinChars > TotalChars => ret.value = "english"

\* C16 amended: both thresholds are strict and the Khmer test comes first.
\* A Khmer ratio of exactly 0.3 is never Khmer (English when the Latin
\* ratio is above 0.5, else Mixed) and a greater one is always Khmer; a
\* Latin ratio of exactly 0.5 is never English (Khmer when the Khmer ratio
\* is above 0.3, else Mixed) and a greater one is English unless the Khmer
\* ratio is above 0.3.
C16_StrictBoundariesKhmerFirst ==
    (DetectReturned /\ TotalChars > 0) =>
        /\ 10 * KhmerChars = 3 * TotalChars =>
              ret.value = IF 2 * LatinChars > TotalChars
                          THEN "english" ELSE "mixed"
        /\ 10 * KhmerChars > 3 * TotalChars => ret.value = "khmer"
        /\ 2 * LatinChars = TotalChars =>
              ret.value = IF 10 * KhmerChars > 3 * TotalChars
                          THEN "khmer" ELSE "mixed"
        /\ 2 * LatinChars > TotalChars =>
              ret.value = IF 10 * KhmerChars > 3 * TotalChars
                          THEN "khmer" ELSE "english"

\* three Khmer and seven Latin letters: the Khmer ratio is exactly 0.3 and
\* the text is English
C16_Witness ==
    /\ DetectReturned
    /\ KhmerChars = 3
    /\ LatinChars = 7
    /\ TotalChars = 10
    /\ ret.value = "english"

\* extract_content has returned for the page of one element
ExtractReturned == ret # None /\ ret.fn = "extract_content"

\* the text is a run of three or more of one punctuation character
IsPunctuationRun(text) ==
    /\ Len(text) >= 3
    /\ \E c \in Punctuation : text = Rep(c, Len(text))

\* C17: a fragment that is a run of three or more of one punctuation
\* character is in neither stream of the extracted content, whatever the
\* character and the length.
C17_PunctuationRunsExcluded ==
    (ExtractReturned /\ IsPunctuationRun(arg.text)) =>
        arg.text \notin Range(ret.value.english) \cup Range(ret.value.khmer)

\* C18: with a concurrency of 0 or less crawl_website ends with an error
\* before anything is fetched: once called it is never at the loop, with a
\* batch or returned.
C18_BadConcurrencyAborts ==
    (concurrency <= 0 /\ crawlpc # "call") =>
        /\ crawlpc = "ValueError"
        /\ visited_urls = {}
        /\ handlers = <<>>

\* join_khmer_sentences of src/main.py has returned
MainJoinReturned == ret # None /\ ret.fn = "main.join_khmer_sentences"

\* the fragments of the call that are no post-content p texts (headings,
\* list items, spans, card texts), in the order in which they were handed in
PassThrough(seq) ==
    SelectSeq(seq, LAMBDA text :
        /\ text # <<>>
        /\ text \in Range(arg.data)
        /\ text \notin arg.post_content_p_texts)

\* C19: every fragment that is no post-content p text is an element of the
\* output, unchanged and in its place among the others, and no output
\* element holds text of fragments from both sides of it.
C19_OtherProvenancePassesThrough ==
    MainJoinReturned =>
        /\ PassThrough(ret.value) = PassThrough(arg.data)
        /\ \A j \in 1..Len(arg.data) :
              (arg.data[j] # <<>> /\ arg.data[j] \notin arg.post_content_p_texts)
                 => LET before == join_khmer_sentences(
                                      SubSeq(arg.data, 1, j - 1),
                                      arg.post_content_p_texts)
                    IN SubSeq(ret.value, 1, Len(before) + 1)
                          = Append(before, arg.data[j])

\* the fragments of the call that take part in joining: the post-content
\* p texts in src/main.py, every fragment in the two older variants
Joinable ==
    IF ret.fn = "main.join_khmer_sentences"
    THEN Range(arg.data) \cap arg.post_content_p_texts
    ELSE Range(arg.data)

\* C20: when no joinable fragment contains "។", nothing is joined: the
\* fragments are returned as they are, one element each, in their order.
C20_NoTerminatorNoJoining ==
    (JoinReturned /\ \A text \in Joinable : ~HasKhan(text)) =>
        ret.value = arg.data

\* every fragment of the call is a post-content p text: all are joinable
AllJoinable ==
    \A j \in 1..Len(arg.data) : arg.data[j] \in arg.post_content_p_texts

\* the texts of a run, in order, with one blank between them
RECURSIVE RunText(_)
RunText(run) ==
    IF run = <<>> THEN <<>>
    ELSE IF Len(run) = 1 THEN run[1]
    ELSE run[1] \o <<" ">> \o RunText(Tail(run))

\* the sentences of a list of joinable fragments from data[j] on, run being
\* the fragments since the last one that ended in "។": a run ends at the
\* first fragment that ends in "។", the run left at the end is trimmed
RECURSIVE SentencesFrom(_, _, _)
SentencesFrom(data, j, run) ==
    IF j > Len(data)
    THEN (IF run = <<>> THEN <<>> ELSE << strip(RunText(run)) >>)
    ELSE IF EndsWithKhan(data[j])
    THEN << RunText(Append(run, data[j])) >> \o SentencesFrom(data, j + 1, <<>>)
    ELSE SentencesFrom(data, j + 1, Append(run, data[j]))

\* C21: of joinable fragments the output is one sentence per maximal run
\* that ends at the first fragment ending in "។", and the trimmed rest; it
\* is in fragment order and no longer than the input.
C21_OneSentencePerRun ==
    (MainJoinReturned /\ AllJoinable) =>
        /\ ret.value = SentencesFrom(arg.data, 1, <<>>)
        /\ Len(ret.value) <= Len(arg.data)

\* the number of empty strings in a list
Placeholders(seq) == Cardinality({j \in 1..Len(seq) : seq[j] = <<>>})

\* C22: a placeholder "" flushes the accumulation and is emitted as it is:
\* the output has as many empty strings as the input, and it is the output
\* for the fragments before the placeholder, the placeholder, and the
\* output for the fragments after it.
C22_PlaceholderFlushesAndStays ==
    MainJoinReturned =>
        /\ Placeholders(ret.value) = Placeholders(arg.data)
        /\ \A j \in 1..Len(arg.data) :
              arg.data[j] = <<>> =>
                 ret.value =
                    join_khmer_sentences(SubSeq(arg.data, 1, j - 1),
                                         arg.post_content_p_texts)
                    \o << <<>> >>
                    \o join_khmer_sentences(
                           SubSeq(arg.data, j + 1, Len(arg.data)),
                           arg.post_content_p_texts)

\* a placeholder between two body paragraphs that do not end in "។"
C22_Witness ==
    /\ MainJoinReturned
    /\ arg.data = << <<"ក", "ក", "ក">>, <<>>, <<"ខ", "ខ", "ខ">> >>
    /\ arg.post_content_p_texts = {<<"ក", "ក", "ក">>, <<"ខ", "ខ", "ខ">>}
    /\ ret.value = arg.data

\* the English sentences merged into pair p: those after its first one
MergedInto(p) ==
    {e \in 1..Len(english_sentences) :
        \E a \in 2..Len(merged_english_texts[p]) :
            <<merged_english_texts[p][a]>> = english_sentences[e]}

\* the English sentences that are the initial partner of a pair
InitialPartners == {pairs[p].en : p \in 1..Len(pairs)}

\* C23: in the merge step an English sentence is merged into one pair at
\* most; a merged sentence is no longer in the unused pool, and no initial
\* partner of a pair is in the pool or merged.
C23_MergedIntoOnePairOnly ==
    alignpc \in {"merge", "returned"} =>
        /\ \A p, q \in 1..Len(pairs) :
              p # q => MergedInto(p) \cap MergedInto(q) = {}
        /\ \A p \in 1..Len(pairs) :
              /\ MergedInto(p) \cap Range(unused_english_indices) = {}
              /\ MergedInto(p) \cap InitialPartners = {}
        /\ Range(unused_english_indices) \cap InitialPartners = {}

\* two pairs with the same initial partner have each taken one of the two
\* unused sentences
C23_Witness ==
    /\ alignpc = "returned"
    /\ Len(pairs) = 2
    /\ pairs[1].en = pairs[2].en
    /\ MergedInto(1) # {}
    /\ MergedInto(2) # {}
    /\ MergedInto(1) # MergedInto(2)

\* what merging candidate c into pair p does to the score of the pair
Delta(p, c) == merge_scores[p][c] - similarities[p].max_score

\* C24: a turn of the merge loop with a non-empty pool merges into the
\* current pair the candidate with the largest score difference, negative
\* or not, the first such in index order, takes it from the pool and goes
\* on to the next pair.
C24_EachPairTakesBestCandidate ==
    [][(alignpc = "merge" /\ pair_idx <= Len(pairs)
            /\ unused_english_indices # <<>>) =>
          \E a \in 1..Len(unused_english_indices) :
            LET c == unused_english_indices[a] IN
            /\ \A b \in 1..Len(unused_english_indices) :
                  Delta(pair_idx, unused_english_indices[b]) <= Delta(pair_idx, c)
            /\ \A b \in 1..(a - 1) :
                  Delta(pair_idx, unused_english_indices[b]) < Delta(pair_idx, c)
            /\ merged_english_texts' =
                  [merged_english_texts EXCEPT ![pair_idx] =
                      @ \o english_sentences[c]]
            /\ unused_english_indices' =
                  SelectSeq(unused_english_indices, LAMBDA u : u # c)
            /\ pair_idx' = pair_idx + 1]_vars

\* the first pair had two candidates that both lower its score alike, and
\* took the first
C24_Witness ==
    /\ alignpc = "returned"
    /\ Len(english_sentences) = 3
    /\ pairs[1].en = 1
    /\ Len(pairs) = 1
    /\ Delta(1, 2) < 0
    /\ Delta(1, 3) = Delta(1, 2)
    /\ MergedInto(1) = {2}

\* the number of English sentences that were unused after the matching
UnusedAtFirst == Len(english_sentences) - Cardinality(InitialPartners)

Min(a, b) == IF a <= b THEN a ELSE b

\* C30: when align has returned, each pair has taken one unused English
\* sentence at most, min(K, U) are merged in all, and the U - K left over
\* are in no English text of the output.
C30_OneMergePerPair ==
    alignpc = "returned" =>
        /\ \A p \in 1..Len(pairs) : Cardinality(MergedInto(p)) <= 1
        /\ \A p \in 1..Len(pairs) :
              Len(aligned.english[p]) = 1 + Cardinality(MergedInto(p))
        /\ Cardinality(UNION {MergedInto(p) : p \in 1..Len(pairs)})
              = Min(Len(khmer_sentences), UnusedAtFirst)
        /\ Len(unused_english_indices)
              = UnusedAtFirst - Min(Len(khmer_sentences), UnusedAtFirst)
        /\ \A u \in Range(unused_english_indices) :
              \A p \in 1..Len(aligned.english) :
                 \A a \in 1..Len(aligned.english[p]) :
                    <<aligned.english[p][a]>> # english_sentences[u]

\* one Khmer sentence and three English ones: one of the two unused is
\* merged, the other is in no pair
C30_Witness ==
    /\ alignpc = "returned"
    /\ Len(khmer_sentences) = 1
    /\ UnusedAtFirst = 2
    /\ Len(unused_english_indices) = 1
    /\ Len(aligned.english) = 1

\* extract_content of src/main.py has returned for a page, without error
PageExtracted ==
    /\ ret # None
    /\ ret.fn = "main.extract_content"
    /\ ~ret.value.error

\* C25: the fragment list all_texts of a page holds no text twice, from
\* whatever kinds of element the text was taken.
C25_NoDuplicateFragments ==
    PageExtracted =>
        \A j, k \in 1..Len(ret.value.all_texts) :
            j # k => ret.value.all_texts[j] # ret.value.all_texts[k]

\* extract_content of src/main.py or of src/Celery/scraper.py has returned
ExtractReturnedForPage ==
    /\ ret # None
    /\ ret.fn \in {"main.extract_content", "Celery.extract_content"}

\* C26: extract_content returns also when something in it failed, and then,
\* or when the page has no text it recognizes, both streams of the
\* returned content are empty.
C26_ErrorGivesEmptyStreams ==
    (ExtractReturnedForPage
        /\ (ret.value.error \/ ret.value.all_texts = <<>>)) =>
            ret.value.content = [english |-> <<>>, khmer |-> <<>>]

\* an error on a page from which texts had been taken
C26_Witness ==
    /\ ExtractReturnedForPage
    /\ ret.value.error
    /\ ret.value.all_texts # <<>>
    /\ ret.value.content.english = <<>>
    /\ ret.value.content.khmer = <<>>

\* the language whose stream a pass with cookie l fills, and the other
OwnLanguage(l) == IF l = "1" THEN "english" ELSE "khmer"

OtherLanguage(l) == IF l = "1" THEN "khmer" ELSE "english"

\* the stream of the pass before joining, and the other stream
OwnStream == IF arg.language = "1" THEN ret.value.english_texts
             ELSE ret.value.khmer_texts

OtherStream == IF arg.language = "1" THEN ret.value.khmer_texts
               ELSE ret.value.english_texts

C27_PassesAgreeOnPositions ==
    (pc["1"] = "done" /\ pc["3"] = "done") =>
        /\ Len(results["1"]) = Len(results["3"])
        /\ Len(results["1"]) = Len(urls)
        /\ \A k \in 1..Len(results["1"]) :
              results["1"][k].id = results["3"][k].id
        /\ \A r \in 1..Len(rows) :
              (rows[r].English_Text # Empty /\ rows[r].Khmer_Text # Empty)
                 => rows[r].English_Text[1] = rows[r].Khmer_Text[1]

\* a URL failed in the English pass and was scraped in the Khmer pass, and
\* the lists are not in input order: the rows of the URL were written from
\* the same position of both
C27_Witness ==
    /\ mainpc = "saved"
    /\ \E i \in 1..Len(urls) :
          /\ outcome["1"][i] \in Failed
          /\ outcome["3"][i] = "ok"
          /\ \E r \in 1..Len(rows) :
                rows[r].Khmer_Text # Empty /\ rows[r].Khmer_Text[1] = i
    /\ \E k \in 1..Len(results["1"]) : results["1"][k].id # k

\* C29: crawl_website passes a URL to handle_url only if it was not
\* crawled before, once in a batch, and at a depth of max_depth at most;
\* a crawled URL stays in visited_urls; and never more than `concurrency`
\* handlers hold the semaphore.
C29_CrawledOnceWithinDepth ==
    /\ [](/\ Cardinality(Holding) <= concurrency
          /\ \A h \in 1..Len(handlers) :
                /\ handlers[h].url \in visited_urls
                /\ handlers[h].depth <= max_depth)
    /\ [][/\ visited_urls \subseteq visited_urls'
          /\ (crawlpc = "loop" /\ crawlpc' = "gather") =>
                \A h \in 1..Len(handlers') :
                   /\ handlers'[h].url \notin visited_urls
                   /\ \A g \in 1..Len(handlers') :
                         g # h => handlers'[g].url # handlers'[h].url]_vars

\* a URL that was crawled already waits in the queue once more, while as
\* many handlers as the semaphore admits are at work
C29_Witness ==
    /\ crawlpc = "gather"
    /\ \E k \in 1..Len(queue) : queue[k].url \in visited_urls
    /\ Cardinality(Holding) = concurrency

====
